---- MODULE Spec2Model ----
(***************************************************************************)
(* Model of the remirror release tooling:                                  *)
(*   - .github/workflows/publish.yml : the publish workflow (job npm)      *)
(*   - the monorepo build script (generateExports, generateSizeLimitConfig,*)
(*     generateMainTsConfig, generatePackageTsConfigs, main)               *)
(*   - getBrowserPath, a pure helper of the build script                   *)
(* Three specifications share the module: SpecPublish, SpecBrowser, Spec.  *)
(***************************************************************************)
EXTENDS Integers, Sequences, FiniteSets, TLC

VARIABLES
  \* ---- publish workflow ----
  event,        \* the workflow_run event delivered to GitHub Actions
  wfState,      \* "waiting" | "ignored" | "triggered"
  jobState,     \* "none" | "skipped" | "running" | "success" | "failure"
  outcome,      \* step index -> "pending" | "success" | "failure" | "skipped"
  ran,          \* sequence of the step indices that executed, in execution order
  \* ---- getBrowserPath ----
  bpPkg,        \* the package.json handed to getBrowserPath
  bpResult,     \* the value returned
  bpPc,         \* "idle" | "call" | "returned"
  \* ---- build script ----
  cliArgs,          \* the parsed command line flags
  cpus,             \* os.cpus().length
  mainPc,           \* position of main(): "idle" | "start" | "awaitGenerators" | "formatting" | "resolved" | "rejected"
  gen,              \* generator -> position of that async function
  exited,           \* the process has ended
  exitCode,         \* its exit status
  logged,           \* the log levels written so far
  filesToPrettify,  \* module-level list of generated files
  formatted,        \* the argument handed to formatFiles, <<>> before the call
  written,          \* the files writeJSON has written
  task,             \* generatePackageTsConfigs: package -> state of its limit() task
  tsconfigFiles,    \* package -> the TsConfigFile list its task resolved
  references,       \* generatePackageTsConfigs: the local references array
  rootTsconfig,     \* the references written to support/root/tsconfig.json
  baseMainTsconfig, \* module-level constant: its references array
  mainTsconfig,     \* the references written to tsconfig.json
  sizeLimitJson,    \* the entries written to .size-limit.json
  exportsState      \* generateExports: its locals (stored, actual, expected, files, error)

pubVars == <<event, wfState, jobState, outcome, ran>>
browserVars == <<bpPkg, bpResult, bpPc>>
scriptVars == <<cliArgs, cpus, mainPc, gen, exited, exitCode, logged, filesToPrettify,
                formatted, written, task, tsconfigFiles, references, rootTsconfig,
                baseMainTsconfig, mainTsconfig, sizeLimitJson, exportsState>>
vars == <<pubVars, browserVars, scriptVars>>

(***************************************************************************)
(* publish.yml                                                             *)
(***************************************************************************)

\* Faulty variant of Steps: the release of remirror is moved ahead of the other releases.
StepsRemirrorFirst ==
  << [name |-> "checkout code repository",            coe |-> FALSE],
     [name |-> "setup caching",                       coe |-> FALSE],
     [name |-> "setup node.js",                       coe |-> FALSE],
     [name |-> "install and audit",                   coe |-> FALSE],
     [name |-> "build project",                       coe |-> FALSE],
     [name |-> "publish npm release",                 coe |-> FALSE],
     [name |-> "parse changelog for remirror",        coe |-> FALSE],
     [name |-> "create release for remirror",         coe |-> TRUE],
     [name |-> "parse changelog for @remirror/react", coe |-> FALSE],
     [name |-> "create release for @remirror/react",  coe |-> TRUE],
     [name |-> "parse changelog for @remirror/pm",    coe |-> FALSE],
     [name |-> "create release for @remirror/pm",     coe |-> TRUE] >>

\* jobs.npm.steps, in file order; coe is the step's continue-on-error flag.
Steps ==
  << [name |-> "checkout code repository",            coe |-> FALSE],
     [name |-> "setup caching",                       coe |-> FALSE],
     [name |-> "setup node.js",                       coe |-> FALSE],
     [name |-> "install and audit",                   coe |-> FALSE],
     [name |-> "build project",                       coe |-> FALSE],
     [name |-> "publish npm release",                 coe |-> FALSE],
     [name |-> "parse changelog for @remirror/react", coe |-> FALSE],
     [name |-> "create release for @remirror/react",  coe |-> TRUE],
     [name |-> "parse changelog for @remirror/pm",    coe |-> FALSE],
     [name |-> "create release for @remirror/pm",     coe |-> TRUE],
     [name |-> "parse changelog for remirror",        coe |-> FALSE],
     [name |-> "create release for remirror",         coe |-> TRUE] >>

StepIds == 1..Len(Steps)

\* The index of the step called n.
StepNamed(n) == CHOOSE i \in StepIds : Steps[i].name = n

\* on.workflow_run: workflows, branches, types.
TriggerWorkflows == {"ci"}
TriggerBranches == {"main"}
TriggerTypes == {"completed"}

\* The events GitHub can deliver: a run of some workflow on some branch was
\* requested or completed; only a completed run carries a conclusion.
Events ==
  { e \in [workflow : {"ci", "docs"}, branch : {"main", "next"},
           type : {"requested", "completed"},
           conclusion : {"none", "success", "failure", "cancelled"}] :
      (e.type = "completed") <=> (e.conclusion # "none") }

\* The on: filter of the workflow.
MatchesTrigger(e) ==
  /\ e.workflow \in TriggerWorkflows
  /\ e.branch \in TriggerBranches
  /\ e.type \in TriggerTypes

\* Faulty variant of JobCondition: the job is held back only by a failed ci run.
JobConditionNotFailure(e) == e.conclusion # "failure"

\* jobs.npm.if
JobCondition(e) == e.conclusion = "success"

\* Faulty variant of Conclusion: continue-on-error is not honoured.
ConclusionIsOutcome(i, o) == o

\* A step's conclusion: a failed step with continue-on-error concludes success.
Conclusion(i, o) == IF o = "failure" /\ Steps[i].coe THEN "success" ELSE o

\* success(): the default condition of a step: no earlier step concluded failure.
StepsSucceeded ==
  \A j \in StepIds : Conclusion(j, outcome[j]) # "failure"

\* The first step not yet decided, or 0.
NextStep ==
  IF \E i \in StepIds : outcome[i] = "pending"
    THEN CHOOSE i \in StepIds :
           outcome[i] = "pending" /\ \A j \in StepIds : j < i => outcome[j] # "pending"
    ELSE 0

InitPublish ==
  /\ event \in Events
  /\ wfState = "waiting"
  /\ jobState = "none"
  /\ outcome = [i \in StepIds |-> "pending"]
  /\ ran = <<>>

\* GitHub evaluates the on: filter for the event.
Trigger ==
  /\ wfState = "waiting"
  /\ wfState' = IF MatchesTrigger(event) THEN "triggered" ELSE "ignored"
  /\ UNCHANGED <<event, jobState, outcome, ran, browserVars, scriptVars>>

\* The job's if: is evaluated; a false condition skips the job and its steps.
StartJob ==
  /\ wfState = "triggered"
  /\ jobState = "none"
  /\ jobState' = IF JobCondition(event) THEN "running" ELSE "skipped"
  /\ UNCHANGED <<event, wfState, outcome, ran, browserVars, scriptVars>>

\* The next step runs (no earlier step concluded failure) and succeeds or fails.
RunStep ==
  /\ jobState = "running"
  /\ NextStep # 0
  /\ StepsSucceeded
  /\ \E o \in {"success", "failure"} :
       outcome' = [outcome EXCEPT ![NextStep] = o]
  /\ ran' = Append(ran, NextStep)
  /\ UNCHANGED <<event, wfState, jobState, browserVars, scriptVars>>

\* After a failure that is not tolerated the next step's success() is false.
SkipStep ==
  /\ jobState = "running"
  /\ NextStep # 0
  /\ ~StepsSucceeded
  /\ outcome' = [outcome EXCEPT ![NextStep] = "skipped"]
  /\ UNCHANGED <<event, wfState, jobState, ran, browserVars, scriptVars>>

\* Every step is decided: the job concludes.
FinishJob ==
  /\ jobState = "running"
  /\ NextStep = 0
  /\ jobState' = IF StepsSucceeded THEN "success" ELSE "failure"
  /\ UNCHANGED <<event, wfState, outcome, ran, browserVars, scriptVars>>

NextPublish == Trigger \/ StartJob \/ RunStep \/ SkipStep \/ FinishJob

(***************************************************************************)
(* getBrowserPath                                                          *)
(***************************************************************************)

\* JavaScript undefined and a non-string value (false), as values of a field.
Undefined == "<undefined>"
NonString == "<false>"

isString(x) == x \notin {Undefined, NonString}

\* The key `./${pkg.module}` of the template literal: an undefined module
\* prints as the text "undefined".
BrowserKey(module) == <<"./", IF module = Undefined THEN "undefined" ELSE module>>

\* pkg.browser?.[key]: the value stored under key, undefined when there is none.
Lookup(map, key) == IF key \in DOMAIN map THEN map[key] ELSE Undefined

\* getBrowserPath(pkg). A package.json's browser field is absent, a string, or an
\* object (browserMap) from keys to a string or false.
getBrowserPath(pkg) ==
  LET browserPath ==
        IF pkg.browserKind = "string" THEN pkg.browser
        ELSE IF pkg.browserKind = "object"
          THEN Lookup(pkg.browserMap, BrowserKey(pkg.module))
          ELSE Undefined
  IN IF isString(browserPath) THEN browserPath ELSE pkg.module

\* The module, main and browser values the packages are drawn from.
ModulePaths == {"dist/pkg.esm.js", "dist/alt.esm.js"}
MainPaths == {"dist/pkg.cjs.js"}
BrowserPaths == {"dist/pkg.browser.esm.js"}
BrowserKeys == {BrowserKey(m) : m \in ModulePaths \cup {Undefined}}
NoMap == [k \in {} |-> Undefined]
BrowserMaps ==
  UNION {[K -> BrowserPaths \cup {NonString}] : K \in SUBSET BrowserKeys}

\* The package.json files getBrowserPath is applied to.
BrowserInputs ==
  { [browserKind |-> "absent", browser |-> Undefined, browserMap |-> NoMap,
     module |-> m, main |-> n] : m \in ModulePaths \cup {Undefined},
                                 n \in MainPaths \cup {Undefined} }
  \cup
  { [browserKind |-> "string", browser |-> b, browserMap |-> NoMap,
     module |-> m, main |-> n] : b \in BrowserPaths,
                                 m \in ModulePaths \cup {Undefined},
                                 n \in MainPaths \cup {Undefined} }
  \cup
  { [browserKind |-> "object", browser |-> Undefined, browserMap |-> bm,
     module |-> m, main |-> n] : bm \in BrowserMaps,
                                 m \in ModulePaths \cup {Undefined},
                                 n \in MainPaths \cup {Undefined} }

InitBrowser ==
  /\ bpPkg \in BrowserInputs
  /\ bpResult = Undefined
  /\ bpPc = "call"

IdleBrowser ==
  /\ bpPkg = [browserKind |-> "absent", browser |-> Undefined, browserMap |-> NoMap,
              module |-> Undefined, main |-> Undefined]
  /\ bpResult = Undefined
  /\ bpPc = "idle"

\* A caller applies getBrowserPath to the package.
CallGetBrowserPath ==
  /\ bpPc = "call"
  /\ bpResult' = getBrowserPath(bpPkg)
  /\ bpPc' = "returned"
  /\ UNCHANGED <<bpPkg, pubVars, scriptVars>>

NextBrowser == CallGetBrowserPath

IdlePublish ==
  /\ event = [workflow |-> "ci", branch |-> "main", type |-> "completed",
              conclusion |-> "success"]
  /\ wfState = "idle"
  /\ jobState = "none"
  /\ outcome = [i \in StepIds |-> "pending"]
  /\ ran = <<>>

(***************************************************************************)
(* The build script: the workspace it reads                                *)
(***************************************************************************)

\* Number of packages of the workspace, and the largest CPU count considered.
NumPackages == 3
MaxCpus == 2

\* The packages of a sample workspace, by index; dir is the package's location.
\*   tsconfigsOff : the '@remirror'.tsconfigs field is false
\*   metaOff      : the tsconfigs keys set to false
\*   folders      : the names readdir(location) returns
\*   subPackages  : the relative directories holding a package.json ("" is its own)
\* A package name: its scope ("" when it has none) and the rest. The text of
\* the name is scope "/" base when scoped, so it starts with '@remirror/'
\* exactly when its scope is "@remirror".
Name(scope, base) == [scope |-> scope, base |-> base]

WorkspacePackages ==
  << [name |-> Name("", "remirror"), dir |-> 1, support |-> FALSE,
      main |-> "dist/pkg.cjs.js", module |-> "dist/pkg.esm.js",
      types |-> "dist/pkg.d.ts",
      browserKind |-> "object", browser |-> Undefined,
      browserMap |-> (BrowserKey("dist/pkg.esm.js") :> "dist/pkg.browser.esm.js"),
      tsconfigsOff |-> FALSE, metaOff |-> {}, folders |-> {"src", "__tests__"},
      sizeLimit |-> "10 KB", subPackages |-> {"", "extensions"},
      dependencies |-> <<Name("@remirror", "core"), Name("", "lodash")>>,
      peerDependencies |-> <<Name("", "react")>>],
     [name |-> Name("@remirror", "pm"), dir |-> 2, support |-> FALSE,
      main |-> Undefined, module |-> "dist/pkg.esm.js", types |-> Undefined,
      browserKind |-> "absent", browser |-> Undefined, browserMap |-> NoMap,
      tsconfigsOff |-> TRUE, metaOff |-> {}, folders |-> {"src"},
      sizeLimit |-> "5 KB", subPackages |-> {""},
      dependencies |-> <<>>, peerDependencies |-> <<>>],
     [name |-> Name("@remirror", "support"), dir |-> 3, support |-> TRUE,
      main |-> "dist/pkg.cjs.js", module |-> Undefined, types |-> "dist/pkg.d.ts",
      browserKind |-> "absent", browser |-> Undefined, browserMap |-> NoMap,
      tsconfigsOff |-> FALSE, metaOff |-> {"./"}, folders |-> {"src", "__e2e__"},
      sizeLimit |-> "1 KB", subPackages |-> {""},
      dependencies |-> <<Name("", "remirror")>>, peerDependencies |-> <<>>],
     [name |-> Name("@remirror", "core"), dir |-> 4, support |-> FALSE,
      main |-> "dist/pkg.cjs.js", module |-> "dist/pkg.esm.js", types |-> Undefined,
      browserKind |-> "string", browser |-> "dist/pkg.browser.esm.js",
      browserMap |-> NoMap,
      tsconfigsOff |-> FALSE, metaOff |-> {"__dts__"},
      folders |-> {"src", "__dts__", "__tests__"},
      sizeLimit |-> Undefined, subPackages |-> {""},
      dependencies |-> <<Name("@remirror", "pm")>>, peerDependencies |-> <<>>],
     [name |-> Name("@remirror", "react"), dir |-> 5, support |-> FALSE,
      main |-> "dist/pkg.cjs.js", module |-> "dist/alt.esm.js", types |-> "dist/pkg.d.ts",
      browserKind |-> "absent", browser |-> Undefined, browserMap |-> NoMap,
      tsconfigsOff |-> FALSE, metaOff |-> {"src"}, folders |-> {"src", "__e2e__"},
      sizeLimit |-> "20 KB", subPackages |-> {""},
      dependencies |-> <<Name("@remirror", "core"), Name("", "remirror")>>,
      peerDependencies |-> <<Name("", "react"), Name("", "react-dom")>>] >>

PackageIds == 1..NumPackages
Pkg(p) == WorkspacePackages[p]

\* getAllDependencies({excludeSupport}): the workspace's packages, in order,
\* without the support packages when asked.
getAllDependencies(excludeSupport) ==
  SelectSeq([i \in PackageIds |-> i], LAMBDA p : ~(excludeSupport /\ Pkg(p).support))

\* A file path relative to the repository root: the package directory (0 for
\* none), a folder below it ("" for the directory itself) and the file name.
Path(dir, folder, file) == [dir |-> dir, folder |-> folder, file |-> file]

\* paths.*
SizeLimitPath == Path(0, "support/root", ".size-limit.json")
MainTsconfigPath == Path(0, "", "tsconfig.json")
RootTsconfigPath == Path(0, "support/root", "tsconfig.json")
tsconfigFileName == "tsconfig.json"

\* path.dirname of a file path.
Dirname(path) == [dir |-> path.dir, folder |-> path.folder]

(***************************************************************************)
(* resolveTsConfigMeta                                                     *)
(***************************************************************************)

\* The keys of DEFAULT_TSCONFIG_META left in `rest` once './' and src are taken
\* out, in the order Object.entries yields them.
RestFolders == <<"__e2e__", "__tests__", "__dts__">>

TsConfigFile(path, shouldReference) ==
  [filepath |-> path, shouldReference |-> shouldReference]

\* resolveTsConfigMeta(pkg, dependencies): the tsconfig files of one package.
resolveTsConfigMeta(pkg) ==
  IF pkg.tsconfigsOff THEN <<>>
  ELSE
    LET srcFiles ==
          IF "src" \notin pkg.metaOff
            THEN <<TsConfigFile(Path(pkg.dir, "src", tsconfigFileName), TRUE)>>
            ELSE <<>>
        mainFiles ==
          IF "./" \notin pkg.metaOff
            THEN <<TsConfigFile(Path(pkg.dir, "", tsconfigFileName), FALSE)>>
            ELSE <<>>
        kept == SelectSeq(RestFolders,
                  LAMBDA f : f \in pkg.folders /\ f \notin pkg.metaOff)
        restFiles ==
          [i \in 1..Len(kept) |->
             TsConfigFile(Path(pkg.dir, kept[i], tsconfigFileName), TRUE)]
    IN srcFiles \o mainFiles \o restFiles

\* The references one task pushes: the directory of every file it should
\* reference, in the order of the files.
ReferencesOf(files) ==
  LET refd == SelectSeq(files, LAMBDA f : f.shouldReference)
  IN [i \in 1..Len(refd) |-> Dirname(refd[i].filepath)]

\* tsconfigFiles.map((tsconfig) => tsconfig.filepath): one filesToPrettify entry.
FilepathsOf(files) == [i \in 1..Len(files) |-> files[i].filepath]

\* Collation rank of a folder name inside one package directory, as
\* localeCompare orders "<dir>", "<dir>/__dts__", "<dir>/__e2e__",
\* "<dir>/__tests__", "<dir>/src".
FolderRank(folder) ==
  CASE folder = "" -> 0
    [] folder = "__dts__" -> 1
    [] folder = "__e2e__" -> 2
    [] folder = "__tests__" -> 3
    [] folder = "src" -> 4
    [] OTHER -> 5

\* a.path.localeCompare(b.path) for two directories: negative, zero or positive.
localeCompare(a, b) ==
  IF a.dir # b.dir THEN a.dir - b.dir
  ELSE FolderRank(a.folder) - FolderRank(b.folder)

\* Insert x into the sorted sequence s after every element not greater than it.
RECURSIVE InsertSorted(_, _)
InsertSorted(s, x) ==
  IF s = <<>> THEN <<x>>
  ELSE IF localeCompare(x, Head(s)) < 0 THEN <<x>> \o s
  ELSE <<Head(s)>> \o InsertSorted(Tail(s), x)

\* Faulty variant of SortReferences: the references are written in push order.
UnsortedReferences(s) == s

\* references.sort((a, b) => a.path.localeCompare(b.path)): a stable sort.
RECURSIVE SortReferences(_)
SortReferences(s) ==
  IF s = <<>> THEN <<>>
  ELSE InsertSorted(SortReferences(SubSeq(s, 1, Len(s) - 1)), s[Len(s)])

(***************************************************************************)
(* The build script: main() and the generators                             *)
(***************************************************************************)

Generators == {"sizeLimit", "packageTs", "mainTs", "exports"}

\* The generators main() calls for the given flags (its if / else-if chain).
SelectedGenerators(args) ==
  IF args.size THEN {"sizeLimit"}
  ELSE IF args.tsExperimentalReferences THEN {"packageTs", "mainTs"}
  ELSE IF args.tsPackages THEN {"packageTs"}
  ELSE IF args.exports THEN {"exports"}
  ELSE {"sizeLimit"}

\* baseMainTsconfig.references as the module is loaded.
BaseReferences ==
  << Path(0, "test", "tsconfig.json"),
     Path(0, "support/storybook", "tsconfig.json"),
     Path(0, "examples/with-next", "tsconfig.json"),
     Path(0, "support", "tsconfig.all.json") >>

\* excludedPackageNames
excludedPackageNames == {Name("@remirror", "support")}

NoExports ==
  [stored |-> [p \in {} |-> <<>>], todo |-> <<>>, actual |-> [p \in {} |-> <<>>],
   expected |-> [p \in {} |-> <<>>], files |-> <<>>, error |-> FALSE]

InitScript ==
  /\ cliArgs \in [size : BOOLEAN, tsExperimentalReferences : BOOLEAN,
                  tsPackages : BOOLEAN, exports : BOOLEAN,
                  check : BOOLEAN, force : BOOLEAN]
  /\ cpus \in 1..MaxCpus
  /\ mainPc = "start"
  /\ gen = [g \in Generators |-> "idle"]
  /\ exited = FALSE
  /\ exitCode = 0
  /\ logged = {}
  /\ filesToPrettify = <<>>
  /\ formatted = <<>>
  /\ written = {}
  /\ task = [p \in PackageIds |-> "none"]
  /\ tsconfigFiles = [p \in PackageIds |-> <<>>]
  /\ references = <<>>
  /\ rootTsconfig = <<>>
  /\ baseMainTsconfig = BaseReferences
  /\ mainTsconfig = <<>>
  /\ sizeLimitJson = <<>>
  /\ exportsState = NoExports

\* The flags as they are before the script runs (the other specifications).
IdleScript ==
  /\ cliArgs = [size |-> FALSE, tsExperimentalReferences |-> FALSE,
                tsPackages |-> FALSE, exports |-> FALSE,
                check |-> FALSE, force |-> FALSE]
  /\ cpus = 1
  /\ mainPc = "idle"
  /\ gen = [g \in Generators |-> "idle"]
  /\ exited = FALSE
  /\ exitCode = 0
  /\ logged = {}
  /\ filesToPrettify = <<>>
  /\ formatted = <<>>
  /\ written = {}
  /\ task = [p \in PackageIds |-> "none"]
  /\ tsconfigFiles = [p \in PackageIds |-> <<>>]
  /\ references = <<>>
  /\ rootTsconfig = <<>>
  /\ baseMainTsconfig = BaseReferences
  /\ mainTsconfig = <<>>
  /\ sizeLimitJson = <<>>
  /\ exportsState = NoExports

\* The event loop still delivers completions to the generators: the process is
\* alive and main() has not rejected (its catch handler runs before any
\* further I/O completion).
Running == ~exited /\ mainPc = "awaitGenerators"

\* main() is called: it calls every generator of the selected mode, each of
\* which runs up to its first await, and awaits Promise.all of them.
MainStart ==
  /\ ~exited
  /\ mainPc = "start"
  /\ gen' = [g \in Generators |->
               IF g \in SelectedGenerators(cliArgs) THEN "deps" ELSE "idle"]
  /\ mainPc' = "awaitGenerators"
  /\ logged' = logged \cup {"info"}
  /\ UNCHANGED <<cliArgs, cpus, exited, exitCode, filesToPrettify, formatted,
                 written, task, tsconfigFiles, references, rootTsconfig,
                 baseMainTsconfig, mainTsconfig, sizeLimitJson, exportsState,
                 pubVars, browserVars>>

\* An awaited promise of generator g rejects where g stands at `at`: g rejects,
\* so Promise.all and with it main() reject.
Rejects(g, at) ==
  /\ Running
  /\ gen[g] = at
  /\ gen' = [gen EXCEPT ![g] = "rejected"]
  /\ mainPc' = "rejected"

\* getAllDependencies() (or getTypedPackagesWithPath()) rejects in a generator.
DependenciesReject ==
  /\ \E g \in Generators : Rejects(g, "deps")
  /\ UNCHANGED <<cliArgs, cpus, exited, exitCode, logged, filesToPrettify, formatted,
                 written, task, tsconfigFiles, references, rootTsconfig,
                 baseMainTsconfig, mainTsconfig, sizeLimitJson, exportsState,
                 pubVars, browserVars>>

\* writeJSON of a generator's single output file rejects.
WriteRejects ==
  /\ \E g \in {"sizeLimit", "mainTs", "packageTs"} : Rejects(g, "write")
  /\ UNCHANGED <<cliArgs, cpus, exited, exitCode, logged, filesToPrettify, formatted,
                 written, task, tsconfigFiles, references, rootTsconfig,
                 baseMainTsconfig, mainTsconfig, sizeLimitJson, exportsState,
                 pubVars, browserVars>>

(***************************************************************************)
(* generateSizeLimitConfig                                                 *)
(***************************************************************************)

\* Faulty variant of IgnoreList: the dependencies are not filtered by name.
IgnoreListUnfiltered(pkg) == pkg.peerDependencies \o pkg.dependencies

\* The `ignore` list of a package: every peer dependency, then the
\* dependencies whose name starts with '@remirror/'.
IgnoreList(pkg) ==
  pkg.peerDependencies \o
    SelectSeq(pkg.dependencies, LAMBDA n : n.scope = "@remirror")

\* The entries of `sizes` after the loop over the packages.
SizeLimitEntries ==
  LET all == getAllDependencies(FALSE)
      kept == SelectSeq(all, LAMBDA p :
                /\ Pkg(p).sizeLimit \notin {Undefined, ""}
                /\ getBrowserPath(Pkg(p)) # Undefined)
  IN [i \in 1..Len(kept) |->
        [name |-> Pkg(kept[i]).name, limit |-> Pkg(kept[i]).sizeLimit,
         path |-> Path(Pkg(kept[i]).dir, "", getBrowserPath(Pkg(kept[i]))),
         ignore |-> IgnoreList(Pkg(kept[i])), running |-> FALSE, gzip |-> TRUE]]

\* getAllDependencies() resolves: the loop builds `sizes`, writeJSON starts.
SizeLimitDependencies ==
  /\ Running
  /\ gen["sizeLimit"] = "deps"
  /\ gen' = [gen EXCEPT !["sizeLimit"] = "write"]
  /\ UNCHANGED <<cliArgs, cpus, mainPc, exited, exitCode, logged, filesToPrettify,
                 formatted, written, task, tsconfigFiles, references, rootTsconfig,
                 baseMainTsconfig, mainTsconfig, sizeLimitJson, exportsState,
                 pubVars, browserVars>>

\* writeJSON(paths.sizeLimit, sizes) resolves; the file is recorded.
SizeLimitWritten ==
  /\ Running
  /\ gen["sizeLimit"] = "write"
  /\ sizeLimitJson' = SizeLimitEntries
  /\ written' = written \cup {SizeLimitPath}
  /\ filesToPrettify' = Append(filesToPrettify, <<SizeLimitPath>>)
  /\ gen' = [gen EXCEPT !["sizeLimit"] = "resolved"]
  /\ UNCHANGED <<cliArgs, cpus, mainPc, exited, exitCode, logged, formatted, task,
                 tsconfigFiles, references, rootTsconfig, baseMainTsconfig,
                 mainTsconfig, exportsState, pubVars, browserVars>>

(***************************************************************************)
(* generateMainTsConfig                                                    *)
(***************************************************************************)

\* The references the loop pushes: one per package that is not excluded.
MainReferences ==
  LET kept == SelectSeq(getAllDependencies(FALSE),
                LAMBDA p : Pkg(p).name \notin excludedPackageNames)
  IN [i \in 1..Len(kept) |-> Path(Pkg(kept[i]).dir, "", tsconfigFileName)]

\* getAllDependencies() resolves. mainTsconfig = { ...baseMainTsconfig } copies
\* the object but shares its references array, so the loop's pushes land in
\* baseMainTsconfig.references.
MainTsDependencies ==
  /\ Running
  /\ gen["mainTs"] = "deps"
  /\ baseMainTsconfig' = baseMainTsconfig \o MainReferences
  /\ gen' = [gen EXCEPT !["mainTs"] = "write"]
  /\ UNCHANGED <<cliArgs, cpus, mainPc, exited, exitCode, logged, filesToPrettify,
                 formatted, written, task, tsconfigFiles, references, rootTsconfig,
                 mainTsconfig, sizeLimitJson, exportsState, pubVars, browserVars>>

\* writeJSON(paths.mainTsconfig, mainTsconfig) resolves; the file is recorded.
MainTsWritten ==
  /\ Running
  /\ gen["mainTs"] = "write"
  /\ mainTsconfig' = baseMainTsconfig
  /\ written' = written \cup {MainTsconfigPath}
  /\ filesToPrettify' = Append(filesToPrettify, <<MainTsconfigPath>>)
  /\ gen' = [gen EXCEPT !["mainTs"] = "resolved"]
  /\ UNCHANGED <<cliArgs, cpus, mainPc, exited, exitCode, logged, formatted, task,
                 tsconfigFiles, references, rootTsconfig, baseMainTsconfig,
                 sizeLimitJson, exportsState, pubVars, browserVars>>

(***************************************************************************)
(* generatePackageTsConfigs                                                *)
(***************************************************************************)

\* The tasks p-limit is running: started and not yet settled.
ActiveTasks == {p \in PackageIds : task[p] \in {"resolving", "writing"}}

\* p-limit's next(): when a task settles, the oldest queued task starts.
StartNext(t) ==
  IF \E p \in PackageIds : t[p] = "queued"
    THEN LET q == CHOOSE p \in PackageIds :
                    t[p] = "queued" /\ \A r \in PackageIds : r < p => t[r] # "queued"
         IN [t EXCEPT ![q] = "resolving"]
    ELSE t

\* Faulty variant of Enqueue: every task starts at once, whatever the concurrency.
EnqueueUnlimited(concurrency) == [p \in PackageIds |-> "resolving"]

\* limit(fn) called for every package in turn by pLimit(concurrency): the
\* first `concurrency` tasks start at once, the others are queued.
Enqueue(concurrency) ==
  [p \in PackageIds |-> IF p <= concurrency THEN "resolving" ELSE "queued"]

\* Faulty variant of PushReferences: the task assigns the array instead of pushing.
AssignReferences(refs, files) == ReferencesOf(files)

\* references.push(...) of one task.
PushReferences(refs, files) == refs \o ReferencesOf(files)

\* filesToPrettify.push(filepaths.join(' ')) of one task.
PushFilesToPrettify(list, files) == Append(list, FilepathsOf(files))

\* getAllDependencies() and getTypedPackagesWithPath() resolve; the loop hands
\* one task per package to limit() and Promise.all(promises) is awaited.
PackageTsDependencies ==
  /\ Running
  /\ gen["packageTs"] = "deps"
  /\ task' = Enqueue(cpus)
  /\ gen' = [gen EXCEPT !["packageTs"] = "tasks"]
  /\ UNCHANGED <<cliArgs, cpus, mainPc, exited, exitCode, logged, filesToPrettify,
                 formatted, written, tsconfigFiles, references, rootTsconfig,
                 baseMainTsconfig, mainTsconfig, sizeLimitJson, exportsState,
                 pubVars, browserVars>>

\* resolveTsConfigMeta(pkg) resolves in the task of package p: the task pushes
\* its references and starts writing its files.
TaskResolved(p) ==
  /\ Running
  /\ task[p] = "resolving"
  /\ tsconfigFiles' = [tsconfigFiles EXCEPT ![p] = resolveTsConfigMeta(Pkg(p))]
  /\ references' = PushReferences(references, resolveTsConfigMeta(Pkg(p)))
  /\ task' = [task EXCEPT ![p] = "writing"]
  /\ UNCHANGED <<cliArgs, cpus, mainPc, gen, exited, exitCode, logged, filesToPrettify,
                 formatted, written, rootTsconfig, baseMainTsconfig, mainTsconfig,
                 sizeLimitJson, exportsState, pubVars, browserVars>>

\* Every writeJSON of the task of package p resolves: the task records its
\* files and settles, and p-limit starts the next queued task.
TaskWritten(p) ==
  /\ Running
  /\ task[p] = "writing"
  /\ written' = written \cup {tsconfigFiles[p][i].filepath : i \in DOMAIN tsconfigFiles[p]}
  /\ filesToPrettify' = PushFilesToPrettify(filesToPrettify, tsconfigFiles[p])
  /\ task' = StartNext([task EXCEPT ![p] = "done"])
  /\ UNCHANGED <<cliArgs, cpus, mainPc, gen, exited, exitCode, logged, formatted,
                 tsconfigFiles, references, rootTsconfig, baseMainTsconfig,
                 mainTsconfig, sizeLimitJson, exportsState, pubVars, browserVars>>

\* readdir(pkg.location) rejects inside resolveTsConfigMeta (a package whose
\* tsconfigs field is false returns before it): the task rejects, p-limit starts
\* the next task, and Promise.all(promises) rejects.
TaskResolveRejects(p) ==
  /\ Rejects("packageTs", "tasks")
  /\ task[p] = "resolving"
  /\ ~Pkg(p).tsconfigsOff
  /\ task' = StartNext([task EXCEPT ![p] = "failed"])
  /\ UNCHANGED <<cliArgs, cpus, exited, exitCode, logged, filesToPrettify, formatted,
                 written, tsconfigFiles, references, rootTsconfig, baseMainTsconfig,
                 mainTsconfig, sizeLimitJson, exportsState, pubVars, browserVars>>

\* One writeJSON of the task of package p rejects; the other files of the
\* task may or may not have been written.
TaskWriteRejects(p) ==
  /\ Rejects("packageTs", "tasks")
  /\ task[p] = "writing"
  /\ tsconfigFiles[p] # <<>>
  /\ \E failing \in {tsconfigFiles[p][i].filepath : i \in DOMAIN tsconfigFiles[p]} :
       \E done \in SUBSET ({tsconfigFiles[p][i].filepath : i \in DOMAIN tsconfigFiles[p]}
                             \ {failing}) :
         written' = written \cup done
  /\ task' = StartNext([task EXCEPT ![p] = "failed"])
  /\ UNCHANGED <<cliArgs, cpus, exited, exitCode, logged, filesToPrettify, formatted,
                 tsconfigFiles, references, rootTsconfig, baseMainTsconfig,
                 mainTsconfig, sizeLimitJson, exportsState, pubVars, browserVars>>

\* Promise.all(promises) resolves once every task is done: the references are
\* sorted and the write of the root tsconfig starts.
PackageTsTasksDone ==
  /\ Running
  /\ gen["packageTs"] = "tasks"
  /\ \A p \in PackageIds : task[p] = "done"
  /\ references' = SortReferences(references)
  /\ gen' = [gen EXCEPT !["packageTs"] = "write"]
  /\ UNCHANGED <<cliArgs, cpus, mainPc, exited, exitCode, logged, filesToPrettify,
                 formatted, written, task, tsconfigFiles, rootTsconfig,
                 baseMainTsconfig, mainTsconfig, sizeLimitJson, exportsState,
                 pubVars, browserVars>>

\* writeJSON(paths.rootTsconfig, {..., references}) resolves; the file is recorded.
PackageTsWritten ==
  /\ Running
  /\ gen["packageTs"] = "write"
  /\ rootTsconfig' = references
  /\ written' = written \cup {RootTsconfigPath}
  /\ filesToPrettify' = Append(filesToPrettify, <<RootTsconfigPath>>)
  /\ gen' = [gen EXCEPT !["packageTs"] = "resolved"]
  /\ UNCHANGED <<cliArgs, cpus, mainPc, exited, exitCode, logged, formatted, task,
                 tsconfigFiles, references, baseMainTsconfig, mainTsconfig,
                 sizeLimitJson, exportsState, pubVars, browserVars>>

(***************************************************************************)
(* generateExports                                                         *)
(***************************************************************************)

\* prefixRelativePath(path.join(filepath, file)): the file `file` names, seen
\* from the package root, below the sub-package directory rel ("" for the
\* package's own directory).
ExportPath(rel, file) == [rel |-> rel, file |-> file]

\* The package.json found in directory rel of package pkg: the package's own
\* for "", an entry point's otherwise (it names a main and a module file).
SubPackageJson(pkg, rel) ==
  IF rel = "" THEN [main |-> pkg.main, module |-> pkg.module, types |-> pkg.types]
  ELSE [main |-> "dist/entry.cjs.js", module |-> "dist/entry.esm.js",
        types |-> Undefined]

\* The value of a condition whose source field is missing: undefined.
UndefinedPath == ExportPath(Undefined, Undefined)

\* omitUndefined(field): the conditions whose value is defined.
omitUndefined(field) ==
  [c \in {d \in DOMAIN field : field[d] # UndefinedPath} |-> field[c]]

\* The export field augmentExportsObject stores under filepath. The browser
\* path is taken from the package's own package.json, not the sub-package's.
ExportFieldOf(pkg, rel, json) ==
  LET browserPath == getBrowserPath(pkg)
      at(file) == IF file # Undefined THEN ExportPath(rel, file) ELSE UndefinedPath
      import == at(json.module)
  IN omitUndefined(
       [import |-> import, require |-> at(json.main), browser |-> at(browserPath),
        types |-> at(json.types), default |-> import])

\* An export field that is a plain string.
StringField(rel, file) == [string |-> ExportPath(rel, file)]

\* The keys of an exports object are "." (written "" here) and "./<name>".
\* Their rank under sortKeys (code unit order of the key text).
KeyRank(key) ==
  CASE key = "" -> 0
    [] key = "extensions" -> 1
    [] key = "old" -> 2
    [] key = "package.json" -> 3
    [] key = "types/*" -> 4
    [] OTHER -> 5

\* The object augmentExportsObject builds over all sub-packages of pkg.
ExportsObject(pkg) ==
  [key \in pkg.subPackages \cup {"package.json", "types/*"} |->
     IF key = "package.json" THEN StringField("", "package.json")
     ELSE IF key = "types/*" THEN StringField("", "dist/declarations/src/*.d.ts")
     ELSE ExportFieldOf(pkg, key, SubPackageJson(pkg, key))]

\* The keys of a set in sortKeys order.
RECURSIVE SortedKeys(_)
SortedKeys(keys) ==
  IF keys = {} THEN <<>>
  ELSE LET k == CHOOSE x \in keys : \A y \in keys : KeyRank(x) <= KeyRank(y)
       IN <<k>> \o SortedKeys(keys \ {k})

\* JSON.stringify(sortKeys(object), null, 2): the text lists the entries in
\* key order.
StringifySorted(object) ==
  LET keys == SortedKeys(DOMAIN object)
  IN [empty |-> FALSE,
      entries |-> [i \in 1..Len(keys) |-> [key |-> keys[i], value |-> object[keys[i]]]]]

\* The empty string that stands in for JSON.stringify(undefined).
EmptyText == [empty |-> TRUE, entries |-> <<>>]

\* The exports fields a package.json on disk may hold: the generated one, none,
\* or an outdated one with a key that is no longer generated.
StoredKinds == {"current", "absent", "outdated"}

\* An exports object without keys.
EmptyExports == [key \in {} |-> UndefinedPath]

\* pkg.exports as the package.json on disk holds it (no keys when absent).
StoredExports(pkg, kind) ==
  CASE kind = "current" -> ExportsObject(pkg)
    [] kind = "absent" -> EmptyExports
    [] OTHER -> ExportsObject(pkg) @@
                  ("old" :> ExportFieldOf(pkg, "old", SubPackageJson(pkg, "old")))

\* actual[name] = JSON.stringify(pkg.exports, null, 2) ?? ''
ActualText(pkg, kind) ==
  IF kind = "absent" THEN EmptyText ELSE StringifySorted(StoredExports(pkg, kind))

\* Faulty variant of ResetExportsObject: the stored exports object is kept.
KeepExportsObject(previous) == previous

\* exportsObject = object(); packageJson.exports = exportsObject: the object
\* the loop over the sub-packages starts from, whatever was stored.
ResetExportsObject(previous) == EmptyExports

\* augmentExportsObject(packageJson, filepath, json) for the package.json in
\* directory rel: the field is assigned under its key, and the package's own
\* package.json also assigns './package.json' and './types/*'.
augmentExportsObject(exportsObject, pkg, rel) ==
  LET own == (rel :> ExportFieldOf(pkg, rel, SubPackageJson(pkg, rel)))
      fixed == IF rel = ""
                 THEN ("package.json" :> StringField("", "package.json")) @@
                      ("types/*" :> StringField("", "dist/declarations/src/*.d.ts"))
                 ELSE EmptyExports
  IN fixed @@ own @@ exportsObject

\* The loop over the package.json files globby found below the package.
RECURSIVE AugmentAll(_, _, _)
AugmentAll(exportsObject, pkg, rels) ==
  IF rels = {} THEN exportsObject
  ELSE LET rel == CHOOSE r \in rels : \A q \in rels : KeyRank(r) <= KeyRank(q)
       IN AugmentAll(augmentExportsObject(exportsObject, pkg, rel), pkg, rels \ {rel})

\* packageJson.exports after the loop body of generateExports for pkg.
GeneratedExports(pkg, kind) ==
  AugmentAll(ResetExportsObject(StoredExports(pkg, kind)), pkg, pkg.subPackages)

\* compareOutput(actual, expected) throws when the two differ.
compareOutputThrows(actual, expected) == actual # expected

\* path.join(location, 'package.json')
PackageJsonPath(pkg) == Path(pkg.dir, "", "package.json")

\* The elements of a sequence.
Range(s) == {s[i] : i \in DOMAIN s}

\* Faulty variant of ExportedPackages: the loop does not skip a package without main.
AllPackagesExported == getAllDependencies(TRUE)

\* The packages the loop of generateExports handles: those with a main field.
ExportedPackages ==
  SelectSeq(getAllDependencies(TRUE), LAMBDA p : Pkg(p).main # Undefined)

\* Faulty variant of ExportsCompare: --force is honoured before --check is looked at.
ExportsCompareForceFirst(es) ==
  LET throws == compareOutputThrows(es.actual, es.expected)
      returnsEarly == ~cliArgs.force /\ (~throws \/ cliArgs.check)
      exits == throws /\ cliArgs.check /\ ~cliArgs.force
  IN /\ exportsState' = [es EXCEPT !.error = throws]
     /\ logged' = logged \cup (IF throws THEN {"info", "error"} ELSE {"info"})
     /\ exited' = exits
     /\ exitCode' = IF exits THEN 1 ELSE exitCode
     /\ gen' = [gen EXCEPT !["exports"] =
                  IF exits THEN "exited"
                  ELSE IF returnsEarly THEN "resolved" ELSE "write"]
     /\ filesToPrettify' =
          IF exits \/ returnsEarly THEN filesToPrettify
          ELSE filesToPrettify \o [i \in 1..Len(es.files) |-> <<es.files[i]>>]

\* What follows the loop over the packages, in the same turn: the comparison
\* inside try/catch, the --force and --check decisions, and, when the files
\* are to be written, the start of every write (each callback of files.map
\* pushes its path onto filesToPrettify before it awaits writeJSON).
ExportsCompare(es) ==
  LET throws == compareOutputThrows(es.actual, es.expected)
      returnsEarly == (~throws /\ ~cliArgs.force) \/ (~throws /\ cliArgs.check)
      exits == throws /\ cliArgs.check
  IN /\ exportsState' = [es EXCEPT !.error = throws]
     /\ logged' = logged \cup (IF throws THEN {"info", "error"} ELSE {"info"})
     /\ exited' = exits
     /\ exitCode' = IF exits THEN 1 ELSE exitCode
     /\ gen' = [gen EXCEPT !["exports"] =
                  IF exits THEN "exited"
                  ELSE IF returnsEarly THEN "resolved" ELSE "write"]
     /\ filesToPrettify' =
          IF exits \/ returnsEarly THEN filesToPrettify
          ELSE filesToPrettify \o [i \in 1..Len(es.files) |-> <<es.files[i]>>]

\* getAllDependencies({ excludeSupport: true }) resolves with the packages and
\* the exports field each package.json holds; the loop skips the packages
\* without a main field and awaits globby for the first of the others.
ExportsDependencies ==
  /\ Running
  /\ gen["exports"] = "deps"
  /\ LET todo == ExportedPackages
     IN \E stored \in [Range(todo) -> StoredKinds] :
          LET es == [NoExports EXCEPT !.stored = stored, !.todo = todo]
          IN IF todo = <<>>
               THEN ExportsCompare(es)
               ELSE /\ exportsState' = es
                    /\ gen' = [gen EXCEPT !["exports"] = "glob"]
                    /\ UNCHANGED <<exited, exitCode, logged, filesToPrettify>>
  /\ UNCHANGED <<cliArgs, cpus, mainPc, formatted, written, task, tsconfigFiles,
                 references, rootTsconfig, baseMainTsconfig, mainTsconfig,
                 sizeLimitJson, pubVars, browserVars>>

\* globby resolves for the package at the head of the loop: its exports are
\* rebuilt, actual and expected are recorded, and the loop goes on to the
\* next package with a main field or, after the last, to the comparison.
ExportsGlobbed ==
  /\ Running
  /\ gen["exports"] = "glob"
  /\ LET p == Head(exportsState.todo)
         es == [exportsState EXCEPT
                  !.todo = Tail(@),
                  !.actual = @ @@ (p :> ActualText(Pkg(p), exportsState.stored[p])),
                  !.expected = @ @@ (p :> StringifySorted(
                                  GeneratedExports(Pkg(p), exportsState.stored[p]))),
                  !.files = Append(@, PackageJsonPath(Pkg(p)))]
     IN IF es.todo = <<>>
          THEN ExportsCompare(es)
          ELSE /\ exportsState' = es
               /\ UNCHANGED <<gen, exited, exitCode, logged, filesToPrettify>>
  /\ UNCHANGED <<cliArgs, cpus, mainPc, formatted, written, task, tsconfigFiles,
                 references, rootTsconfig, baseMainTsconfig, mainTsconfig,
                 sizeLimitJson, pubVars, browserVars>>

\* globby rejects.
ExportsGlobRejects ==
  /\ Rejects("exports", "glob")
  /\ UNCHANGED <<cliArgs, cpus, exited, exitCode, logged, filesToPrettify, formatted,
                 written, task, tsconfigFiles, references, rootTsconfig,
                 baseMainTsconfig, mainTsconfig, sizeLimitJson, exportsState,
                 pubVars, browserVars>>

\* Every writeJSON(filepath, json) resolves.
ExportsWritten ==
  /\ Running
  /\ gen["exports"] = "write"
  /\ written' = written \cup Range(exportsState.files)
  /\ gen' = [gen EXCEPT !["exports"] = "resolved"]
  /\ UNCHANGED <<cliArgs, cpus, mainPc, exited, exitCode, logged, filesToPrettify,
                 formatted, task, tsconfigFiles, references, rootTsconfig,
                 baseMainTsconfig, mainTsconfig, sizeLimitJson, exportsState,
                 pubVars, browserVars>>

\* One writeJSON rejects; the other package.json files may or may not have
\* been written.
ExportsWriteRejects ==
  /\ Rejects("exports", "write")
  /\ \E failing \in Range(exportsState.files) :
       \E done \in SUBSET (Range(exportsState.files) \ {failing}) :
         written' = written \cup done
  /\ UNCHANGED <<cliArgs, cpus, exited, exitCode, logged, filesToPrettify, formatted,
                 task, tsconfigFiles, references, rootTsconfig, baseMainTsconfig,
                 mainTsconfig, sizeLimitJson, exportsState, pubVars, browserVars>>

(***************************************************************************)
(* main(): after the generators                                            *)
(***************************************************************************)

\* filesToPrettify.join(' '): the paths of all entries, in order.
RECURSIVE JoinEntries(_)
JoinEntries(list) ==
  IF list = <<>> THEN <<>> ELSE Head(list) \o JoinEntries(Tail(list))

\* Faulty variant of GeneratorsSettled: main() goes on once one generator is done.
AnyGeneratorSettled == \E g \in SelectedGenerators(cliArgs) : gen[g] = "resolved"

\* await Promise.all([...]) of the selected mode resolves: every generator
\* it was given has resolved.
GeneratorsSettled == \A g \in SelectedGenerators(cliArgs) : gen[g] = "resolved"

\* Promise.all of the generators resolves: main() returns when nothing was
\* recorded, and calls formatFiles otherwise.
MainGeneratorsResolved ==
  /\ Running
  /\ GeneratorsSettled
  /\ IF filesToPrettify = <<>>
       THEN /\ mainPc' = "resolved"
            /\ UNCHANGED <<formatted, logged>>
       ELSE /\ mainPc' = "formatting"
            /\ formatted' = JoinEntries(filesToPrettify)
            /\ logged' = logged \cup {"debug"}
  /\ UNCHANGED <<cliArgs, cpus, gen, exited, exitCode, filesToPrettify, written, task,
                 tsconfigFiles, references, rootTsconfig, baseMainTsconfig,
                 mainTsconfig, sizeLimitJson, exportsState, pubVars, browserVars>>

\* formatFiles resolves and main() with it.
FormatResolved ==
  /\ ~exited
  /\ mainPc = "formatting"
  /\ mainPc' = "resolved"
  /\ UNCHANGED <<cliArgs, cpus, gen, exited, exitCode, logged, filesToPrettify,
                 formatted, written, task, tsconfigFiles, references, rootTsconfig,
                 baseMainTsconfig, mainTsconfig, sizeLimitJson, exportsState,
                 pubVars, browserVars>>

\* formatFiles rejects and main() with it.
FormatRejects ==
  /\ ~exited
  /\ mainPc = "formatting"
  /\ mainPc' = "rejected"
  /\ UNCHANGED <<cliArgs, cpus, gen, exited, exitCode, logged, filesToPrettify,
                 formatted, written, task, tsconfigFiles, references, rootTsconfig,
                 baseMainTsconfig, mainTsconfig, sizeLimitJson, exportsState,
                 pubVars, browserVars>>

\* Faulty variant of MainCatch: the handler logs the rejection and lets node end the
\* process normally.
MainCatchWithoutExit ==
  /\ ~exited
  /\ mainPc = "rejected"
  /\ logged' = logged \cup {"error", "fatal"}
  /\ exited' = TRUE
  /\ exitCode' = 0
  /\ UNCHANGED <<cliArgs, cpus, mainPc, gen, filesToPrettify, formatted, written, task,
                 tsconfigFiles, references, rootTsconfig, baseMainTsconfig,
                 mainTsconfig, sizeLimitJson, exportsState, pubVars, browserVars>>

\* main().catch(...): the rejection is logged and the process exits with 1.
MainCatch ==
  /\ ~exited
  /\ mainPc = "rejected"
  /\ logged' = logged \cup {"error", "fatal"}
  /\ exited' = TRUE
  /\ exitCode' = 1
  /\ UNCHANGED <<cliArgs, cpus, mainPc, gen, filesToPrettify, formatted, written, task,
                 tsconfigFiles, references, rootTsconfig, baseMainTsconfig,
                 mainTsconfig, sizeLimitJson, exportsState, pubVars, browserVars>>

\* main() resolved and nothing is pending: node ends the process with status 0.
ProcessEnds ==
  /\ ~exited
  /\ mainPc = "resolved"
  /\ exited' = TRUE
  /\ exitCode' = 0
  /\ UNCHANGED <<cliArgs, cpus, mainPc, gen, logged, filesToPrettify, formatted, written,
                 task, tsconfigFiles, references, rootTsconfig, baseMainTsconfig,
                 mainTsconfig, sizeLimitJson, exportsState, pubVars, browserVars>>

NextScript ==
  \/ MainStart
  \/ DependenciesReject
  \/ WriteRejects
  \/ SizeLimitDependencies
  \/ SizeLimitWritten
  \/ MainTsDependencies
  \/ MainTsWritten
  \/ PackageTsDependencies
  \/ \E p \in PackageIds : TaskResolved(p)
  \/ \E p \in PackageIds : TaskWritten(p)
  \/ \E p \in PackageIds : TaskResolveRejects(p)
  \/ \E p \in PackageIds : TaskWriteRejects(p)
  \/ PackageTsTasksDone
  \/ PackageTsWritten
  \/ ExportsDependencies
  \/ ExportsGlobbed
  \/ ExportsGlobRejects
  \/ ExportsWritten
  \/ ExportsWriteRejects
  \/ MainGeneratorsResolved
  \/ FormatResolved
  \/ FormatRejects
  \/ MainCatch
  \/ ProcessEnds

(***************************************************************************)
(* Specifications                                                          *)
(***************************************************************************)

\* The build script.
Init == InitScript /\ IdlePublish /\ IdleBrowser
Next == NextScript
Spec == Init /\ [][Next]_vars

\* The build script under a fair event loop: a rejection of main() reaches
\* its catch handler, and the pending I/O of a running task completes (or
\* fails) in the end.
FairSpec ==
  /\ Spec
  /\ WF_vars(MainCatch)
  /\ \A p \in PackageIds : WF_vars(TaskResolved(p)) /\ WF_vars(TaskWritten(p))

\* The publish workflow.
PublishInit == InitPublish /\ IdleBrowser /\ IdleScript
SpecPublish == PublishInit /\ [][NextPublish]_vars

\* getBrowserPath applied to one package.json.
BrowserInit == InitBrowser /\ IdlePublish /\ IdleScript
SpecBrowser == BrowserInit /\ [][NextBrowser]_vars

(***************************************************************************)
(* Properties of the publish workflow (SpecPublish)                        *)
(***************************************************************************)

ReleaseSteps ==
  { StepNamed("create release for @remirror/react"),
    StepNamed("create release for @remirror/pm"),
    StepNamed("create release for remirror") }

JobFinished == jobState \in {"success", "failure"}

\* C2: only the three 'create release for ...' steps tolerate failure. When
\* every failed step is one of them, no step is skipped and the job does not
\* fail; when any other step fails, no later step runs and the job fails.
ReleaseFailuresTolerated ==
  /\ {i \in StepIds : Steps[i].coe} = ReleaseSteps
  /\ (\A i \in StepIds : outcome[i] = "failure" => i \in ReleaseSteps)
       => /\ \A j \in StepIds : outcome[j] # "skipped"
          /\ jobState # "failure"
          /\ NextStep = 0 /\ JobFinished => Len(ran) = Len(Steps)
  /\ \A i \in StepIds \ ReleaseSteps :
       outcome[i] = "failure"
         => /\ \A j \in StepIds : j > i =>
                 /\ outcome[j] \in {"pending", "skipped"}
                 /\ \A k \in DOMAIN ran : ran[k] # j
            /\ jobState # "success"
            /\ JobFinished => jobState = "failure"

\* Witness of C2: a release step failed, the next step still ran, and that
\* step's failure stopped the remaining steps and failed the job.
ReleaseFailureThenFatalFailure ==
  /\ outcome[StepNamed("create release for @remirror/react")] = "failure"
  /\ outcome[StepNamed("parse changelog for @remirror/pm")] = "failure"
  /\ outcome[StepNamed("create release for remirror")] = "skipped"
  /\ jobState = "failure"

\* C6: a step of the job runs (and the job itself starts) only for a completed
\* run of workflow ci on branch main that concluded success.
PublishOnlyAfterSuccessfulCi ==
  (jobState \in {"running", "success", "failure"} \/ ran # <<>>)
    => /\ event.workflow = "ci"
       /\ event.branch = "main"
       /\ event.type = "completed"
       /\ event.conclusion = "success"

\* Witness of C6: the job ran for a successful ci run and published to npm.
PublishedAfterSuccessfulCi ==
  /\ event.conclusion = "success"
  /\ \E k \in DOMAIN ran : ran[k] = StepNamed("publish npm release")

\* Step a ran before step b in every run in which b ran.
RanBefore(a, b) ==
  \A k \in DOMAIN ran :
    ran[k] = StepNamed(b) => \E h \in 1..(k - 1) : ran[h] = StepNamed(a)

\* C7: the steps run in a fixed order: build before the npm release, the npm
\* release before every GitHub release, each changelog parsed before its
\* release, and the release of remirror after the release steps of
\* @remirror/react and @remirror/pm, whatever those steps' outcome.
StepsRunInOrder ==
  /\ \A h, k \in DOMAIN ran : h < k => ran[h] < ran[k]
  /\ RanBefore("build project", "publish npm release")
  /\ RanBefore("publish npm release", "create release for @remirror/react")
  /\ RanBefore("publish npm release", "create release for @remirror/pm")
  /\ RanBefore("publish npm release", "create release for remirror")
  /\ RanBefore("parse changelog for @remirror/react", "create release for @remirror/react")
  /\ RanBefore("parse changelog for @remirror/pm", "create release for @remirror/pm")
  /\ RanBefore("parse changelog for remirror", "create release for remirror")
  /\ RanBefore("create release for @remirror/react", "create release for remirror")
  /\ RanBefore("create release for @remirror/pm", "create release for remirror")

\* Witness of C7: the release of remirror ran after both earlier releases failed.
RemirrorReleasedAfterFailedReleases ==
  /\ outcome[StepNamed("create release for @remirror/react")] = "failure"
  /\ outcome[StepNamed("create release for @remirror/pm")] = "failure"
  /\ ran # <<>>
  /\ ran[Len(ran)] = StepNamed("create release for remirror")

(***************************************************************************)
(* Properties of getBrowserPath (SpecBrowser)                              *)
(***************************************************************************)

\* The path the documentation of getBrowserPath promises: the browser path
\* when there is one, otherwise the module path, otherwise the main path.
DocumentedBrowserPath(pkg) ==
  LET browserPath ==
        IF pkg.browserKind = "string" THEN pkg.browser
        ELSE IF pkg.browserKind = "object"
          THEN Lookup(pkg.browserMap, BrowserKey(pkg.module))
          ELSE Undefined
  IN IF isString(browserPath) THEN browserPath
     ELSE IF pkg.module # Undefined THEN pkg.module
     ELSE pkg.main

\* C8: getBrowserPath returns the browser path when one exists, and otherwise
\* falls back to the module path or, without a module, to the main path.
BrowserPathFallsBackToMain ==
  bpPc = "returned" => bpResult = DocumentedBrowserPath(bpPkg)

\* The case C8 is about: a package with a main path and neither a browser
\* path nor a module has been handed to getBrowserPath.
MainOnlyPackageResolved ==
  /\ bpPc = "returned"
  /\ bpPkg.browserKind = "absent"
  /\ bpPkg.module = Undefined
  /\ bpPkg.main # Undefined

(***************************************************************************)
(* Properties of the build script (Spec, FairSpec)                         *)
(***************************************************************************)

\* A generator or the formatting step rejected, so main() rejected.
ErrorOccurred ==
  \/ mainPc = "rejected"
  \/ \E g \in Generators : gen[g] = "rejected"

\* C1: whenever a generator (or the formatting step) rejects in any mode, the
\* error is logged and the process exits with status 1; the process never
\* ends with status 0 after such an error.
ErrorsExitNonZero ==
  /\ [](ErrorOccurred /\ exited => exitCode = 1 /\ {"error", "fatal"} \subseteq logged)
  /\ [](ErrorOccurred => <>(exited /\ exitCode = 1))

\* Witness of C1: one generator of the two-generator mode rejected while the
\* other was still at work, and the process has exited.
RejectedAndExited ==
  /\ exited
  /\ gen["mainTs"] = "rejected"
  /\ gen["packageTs"] = "tasks"

\* Tasks were handed to p-limit.
TasksCreated == \E p \in PackageIds : task[p] # "none"

\* C3 as stated: at most os.cpus().length tasks are started and unfinished,
\* and every package's task runs: when the process has ended, none is left
\* queued.
TasksBoundedAndAllRun ==
  /\ Cardinality(ActiveTasks) <= cpus
  /\ exited /\ TasksCreated => \A p \in PackageIds : task[p] # "queued"

\* C3 amended: at most os.cpus().length tasks are started and unfinished, and
\* every package's task eventually runs unless the process exits first (main's
\* catch handler ends it with status 1 when a task or generator has rejected).
TasksBoundedAndRunUnlessExit ==
  /\ [](Cardinality(ActiveTasks) <= cpus)
  /\ [](exited /\ exitCode = 0 /\ TasksCreated => \A p \in PackageIds : task[p] = "done")
  /\ \A p \in PackageIds :
       [](task[p] = "queued" => <>(task[p] # "queued" \/ (exited /\ exitCode = 1)))

\* Witness of C3: as many tasks as CPUs are running, one that waited in the
\* queue among them, and another still waits.
QueuedTaskStarted ==
  /\ Cardinality(ActiveTasks) = cpus
  /\ \E p \in PackageIds : p > cpus /\ task[p] \in {"resolving", "writing"}
  /\ \E p \in PackageIds : task[p] = "queued"

\* The tasks that wrote to the references array / to filesToPrettify, told
\* by the package directory of the entries.
ReferenceWriters ==
  {p \in PackageIds : \E i \in DOMAIN references : references[i].dir = Pkg(p).dir}
PrettifyWriters ==
  {p \in PackageIds :
     \E i \in DOMAIN filesToPrettify : \E j \in DOMAIN filesToPrettify[i] :
       /\ filesToPrettify[i][j].dir = Pkg(p).dir
       /\ filesToPrettify[i][j].file = tsconfigFileName}

\* C4 as stated: no collection is written by one task and also written by
\* another task or read by the code that runs after the tasks.
NoSharedMutableState ==
  /\ Cardinality(ReferenceWriters) <= 1
  /\ Cardinality(PrettifyWriters) <= 1
  /\ ReferenceWriters # {} => gen["packageTs"] \notin {"write", "resolved"}
  /\ PrettifyWriters # {} => mainPc \notin {"formatting", "resolved"}

IsPrefix(s, t) == Len(s) <= Len(t) /\ SubSeq(t, 1, Len(s)) = s

\* A step of the task of package p only appends to the two shared
\* collections, and what it appends to references are directories of p.
TaskOnlyAppends ==
  \A p \in PackageIds :
    task'[p] # task[p] /\ task[p] \in {"resolving", "writing"}
      => /\ IsPrefix(references, references')
         /\ IsPrefix(filesToPrettify, filesToPrettify')
         /\ \A i \in (Len(references) + 1)..Len(references') :
              references'[i].dir = Pkg(p).dir
         /\ task[p] = "resolving" /\ task'[p] = "writing"
              => references' = references \o ReferencesOf(resolveTsConfigMeta(Pkg(p)))

\* The code after the tasks uses the collections only once all tasks are done.
AfterCodeWaitsForTasks ==
  /\ gen["packageTs"] \in {"write", "resolved"} => \A p \in PackageIds : task[p] = "done"
  /\ mainPc \in {"formatting", "resolved"} /\ "packageTs" \in SelectedGenerators(cliArgs)
       => \A p \in PackageIds : task[p] = "done"

\* C4 amended: the tasks share the references array and filesToPrettify; every
\* task only appends its own entries to them, and the code after the tasks
\* (the sort and write of references, the formatting of filesToPrettify) uses
\* them only when every task is done.
SharedCollectionsAppendOnly ==
  /\ [][TaskOnlyAppends]_vars
  /\ []AfterCodeWaitsForTasks

\* Witness of C4: two tasks have written to both collections and the code
\* after the tasks has read them.
TwoTasksWroteBoth ==
  /\ Cardinality(ReferenceWriters) >= 2
  /\ Cardinality(PrettifyWriters) >= 2
  /\ gen["packageTs"] = "resolved"
  /\ mainPc = "formatting"

\* Every tsconfig file generatePackageTsConfigs generates for the workspace.
GeneratedTsconfigs ==
  UNION {Range(resolveTsConfigMeta(Pkg(p))) : p \in PackageIds}

\* The directories in D, least first under localeCompare.
RECURSIVE Ascending(_)
Ascending(D) ==
  IF D = {} THEN <<>>
  ELSE LET least == CHOOSE d \in D : \A e \in D : localeCompare(d, e) <= 0
       IN <<least>> \o Ascending(D \ {least})

\* C5: whatever the order in which the tasks start and complete, the references
\* written to the root tsconfig are the directories of exactly the generated
\* tsconfig files whose shouldReference is true (never a package's top-level
\* './' tsconfig), sorted by path, and the set of files handed to the formatter
\* is the same.
RootReferencesOrderIndependent ==
  /\ gen["packageTs"] = "resolved"
       => /\ rootTsconfig =
               Ascending({Dirname(f.filepath) : f \in {g \in GeneratedTsconfigs : g.shouldReference}})
          /\ \A i \in DOMAIN rootTsconfig : rootTsconfig[i].folder # ""
  /\ mainPc \in {"formatting", "resolved"} /\ "packageTs" \in SelectedGenerators(cliArgs)
       => Range(formatted) =
            {f.filepath : f \in GeneratedTsconfigs} \cup {RootTsconfigPath}
              \cup (IF "mainTs" \in SelectedGenerators(cliArgs)
                      THEN {MainTsconfigPath} ELSE {})

\* Witness of C5: the root tsconfig was written after the tasks completed out
\* of package order (the first package's files were not recorded first).
RootWrittenAfterReordering ==
  /\ gen["packageTs"] = "resolved"
  /\ rootTsconfig # <<>>
  /\ filesToPrettify[1] # FilepathsOf(resolveTsConfigMeta(Pkg(1)))

\* The package.json files written so far.
PackageJsonsWritten == {f \in written : f.file = "package.json"}

\* The stored exports of some handled package differ from the generated ones.
StoredExportsDiffer ==
  \E p \in DOMAIN exportsState.actual : exportsState.stored[p] # "current"

ExportsMode == SelectedGenerators(cliArgs) = {"exports"}

\* C9: with --check, generateExports writes no package.json and records nothing
\* in filesToPrettify, whatever --force is; it ends the process with status 1
\* exactly when the stored exports of some package differ from the generated
\* ones, and returns normally otherwise.
CheckNeverWrites ==
  ExportsMode /\ cliArgs.check
    => /\ PackageJsonsWritten = {}
       /\ filesToPrettify = <<>>
       /\ gen["exports"] \in {"idle", "deps", "glob", "resolved", "exited", "rejected"}
       /\ gen["exports"] = "exited" => exited /\ exitCode = 1 /\ StoredExportsDiffer
       /\ gen["exports"] = "resolved" => ~StoredExportsDiffer

\* Witness of C9: --check and --force together, the exports match, and
\* generateExports returned.
CheckedWithForce ==
  /\ ExportsMode /\ cliArgs.check /\ cliArgs.force
  /\ gen["exports"] = "resolved"
  /\ exportsState.files # <<>>

KeysOf(text) == {text.entries[i].key : i \in DOMAIN text.entries}

\* The value the text holds under key.
ValueOf(text, key) ==
  text.entries[CHOOSE i \in DOMAIN text.entries : text.entries[i].key = key].value

\* The value each condition of the entry for directory rel is read from
\* (default is assigned from import).
ConditionSource(pkg, rel) ==
  LET json == SubPackageJson(pkg, rel)
  IN [import |-> json.module, require |-> json.main,
      browser |-> getBrowserPath(pkg), types |-> json.types,
      default |-> json.module]

\* C11: the exports generated for a package have exactly one key per
\* package.json found below it ('.' for its own, './<dir>' for a nested one)
\* plus './package.json' and './types/*', whatever keys were stored before;
\* in every entry default equals import, a condition is present exactly when
\* the value it is read from is defined, and none is stored as undefined.
ExportsRebuiltFromScratch ==
  \A p \in DOMAIN exportsState.expected :
    LET text == exportsState.expected[p]
        pkg == Pkg(p)
    IN /\ ~text.empty
       /\ KeysOf(text) = pkg.subPackages \cup {"package.json", "types/*"}
       /\ Len(text.entries) = Cardinality(KeysOf(text))
       /\ ValueOf(text, "package.json") = StringField("", "package.json")
       /\ ValueOf(text, "types/*") = StringField("", "dist/declarations/src/*.d.ts")
       /\ \A rel \in pkg.subPackages :
            LET field == ValueOf(text, rel)
                source == ConditionSource(pkg, rel)
            IN /\ DOMAIN field = {c \in DOMAIN source : source[c] # Undefined}
               /\ \A c \in DOMAIN field :
                    /\ field[c] # UndefinedPath
                    /\ field[c] = ExportPath(rel, source[c])
               /\ "default" \in DOMAIN field <=> "import" \in DOMAIN field
               /\ "default" \in DOMAIN field => field.default = field.import

\* Witness of C11: a package with a nested package.json (whose types field
\* is absent) had an outdated key stored, and its exports were generated.
OutdatedExportsRegenerated ==
  \E p \in DOMAIN exportsState.expected :
    /\ exportsState.stored[p] = "outdated"
    /\ "old" \in KeysOf(exportsState.actual[p])
    /\ Cardinality(Pkg(p).subPackages) > 1
    /\ \E rel \in Pkg(p).subPackages : SubPackageJson(Pkg(p), rel).types = Undefined

\* The mode flags in the order the claim gives them, and the generators of
\* the mode each stands for.
ModeFlags == <<"size", "tsExperimentalReferences", "tsPackages", "exports">>
ModeGenerators ==
  [size |-> {"sizeLimit"}, tsExperimentalReferences |-> {"packageTs", "mainTs"},
   tsPackages |-> {"packageTs"}, exports |-> {"exports"}]

\* The generators of the first flag that is set; size-limit when none is.
ModeOfFirstFlag ==
  LET set == {i \in DOMAIN ModeFlags : cliArgs[ModeFlags[i]]}
  IN IF set = {} THEN {"sizeLimit"}
     ELSE ModeGenerators[ModeFlags[CHOOSE i \in set : \A j \in set : i <= j]]

\* The files a generator writes when it runs to its end (generateExports:
\* when it does not return before its writes).
OutputsOf(g) ==
  CASE g = "sizeLimit" -> {SizeLimitPath}
    [] g = "mainTs" -> {MainTsconfigPath}
    [] g = "packageTs" ->
         {RootTsconfigPath} \cup
         UNION {Range(FilepathsOf(resolveTsConfigMeta(Pkg(p)))) : p \in PackageIds}
    [] OTHER -> Range(exportsState.files)

FormattingStarted == mainPc = "formatting" \/ "debug" \in logged \/ formatted # <<>>

\* C12: main runs the generators of exactly one mode, that of the first flag
\* set in the order --size, --ts-experimental-references, --ts-packages,
\* --exports (size-limit when none is set); formatting starts only when every
\* generator of the mode has resolved with all its files written, and never
\* when filesToPrettify is empty.
OneModeThenFormatting ==
  /\ {g \in Generators : gen[g] # "idle"} =
       IF mainPc = "start" THEN {} ELSE ModeOfFirstFlag
  /\ FormattingStarted =>
       /\ \A g \in ModeOfFirstFlag :
            gen[g] = "resolved" /\ OutputsOf(g) \subseteq written
       /\ \A p \in PackageIds : task[p] \in {"none", "done"}
       /\ Range(JoinEntries(filesToPrettify)) \subseteq written
       /\ filesToPrettify # <<>>
       /\ formatted = JoinEntries(filesToPrettify)
  /\ filesToPrettify = <<>> => ~FormattingStarted
  /\ mainPc = "resolved" =>
       (FormattingStarted <=> filesToPrettify # <<>>)

\* Witness of C12: three mode flags are set without --size, the two generators
\* of --ts-experimental-references ran to their end and formatting started.
ReferencesModeFormatted ==
  /\ ~cliArgs.size /\ cliArgs.tsExperimentalReferences
  /\ cliArgs.tsPackages /\ cliArgs.exports
  /\ mainPc = "formatting"
  /\ gen["exports"] = "idle" /\ gen["sizeLimit"] = "idle"
  /\ MainTsconfigPath \in Range(formatted) /\ RootTsconfigPath \in Range(formatted)

\* The packages that have a non-empty sizeLimit and an entry path.
SizeLimited ==
  {p \in PackageIds :
     Pkg(p).sizeLimit \notin {Undefined, ""} /\ getBrowserPath(Pkg(p)) # Undefined}

PackageReferences ==
  {Path(Pkg(p).dir, "", tsconfigFileName) :
     p \in {q \in PackageIds : Pkg(q).name # Name("@remirror", "support")}}

\* The references list written to the main tsconfig: the four base
\* references, then one per package that is not excluded, each once.
MainReferencesWritten ==
  /\ Len(mainTsconfig) = 4 + Cardinality(PackageReferences)
  /\ SubSeq(mainTsconfig, 1, 4) = BaseReferences
  /\ {mainTsconfig[i] : i \in 5..Len(mainTsconfig)} = PackageReferences

\* C14: generateMainTsConfig writes the four base references followed by one
\* reference per workspace package except '@remirror/support', each once, and
\* leaves baseMainTsconfig unchanged: its references are still exactly the
\* four base entries afterwards.
MainTsConfigLeavesBaseUnchanged ==
  /\ MainTsconfigPath \in written => MainReferencesWritten
  /\ baseMainTsconfig = BaseReferences

\* Witness of C14: the main tsconfig was written with the references the
\* claim lists, and baseMainTsconfig.references has grown by the packages'.
BaseReferencesGrown ==
  /\ MainTsconfigPath \in written
  /\ MainReferencesWritten
  /\ PackageReferences # {}
  /\ Len(baseMainTsconfig) = 4 + Cardinality(PackageReferences)

====
